---- MODULE Spec2Model ----
(***************************************************************************)
(* State-machine model of indexao's PluginManager                          *)
(* (src/src/indexao/plugin_manager.py): the registry of adapter classes,   *)
(* the per-name instance cache, the per-type active slot and the switch    *)
(* history, with register, switch, load_adapter and the query operations.  *)
(*                                                                         *)
(* Python dicts are functions whose DOMAIN is the key set.  An adapter     *)
(* instance is its index in `heap` (object identity); 0 is Python's None.  *)
(* datetime.now() is read once per recorded switch event; its readings are *)
(* modelled as the ordinal of the event, each later than the one before.   *)
(***************************************************************************)
EXTENDS Integers, Sequences, FiniteSets, TLC

\* ------------------------------------------------------------------ bounds
\* State-changing calls (register, switch, load_adapter) in one behaviour
\* of Spec, of SpecRS, of SpecTwoTypes, of SpecCallers and of SpecLoad.
MaxCalls == 3
MaxCallsRS == 5
MaxCallsTwoTypes == 4
MaxCallsCallers == 4
MaxCallsLoad == 2

\* Register calls and switch calls begun in one behaviour of SpecThreads.
MaxCallsThreads == 3

\* The resolution of confidences and scores: a finite float x is the
\* integer x * Scale, and the floats tried run from -1.0 to 2.0.
Scale == 10

\* --------------------------------------------------------------- constants
\* The keys of _registry, _active and _instances.
AdapterTypes == {"ocr", "translator", "search"}

\* Python's None, as an instance reference and as a name.
NoInstance == 0
NoName == "None"

\* Arguments the calls are made with: a valid type and an invalid one,
\* two adapter names, three adapter classes.
TypeArgs == {"ocr", "invalid_type"}
NameArgs == {"mock", "tesseract"}
ClassArgs == {"MockOCRAdapter", "MockSearchAdapter", "ClosableAdapter"}

\* The attributes hasattr() finds on each class.  MockOCRAdapter and
\* MockSearchAdapter are the repository's; ClosableAdapter stands for an
\* adapter that exposes every required operation and a close() hook.
ClassAttrs(c) ==
    CASE c = "MockOCRAdapter" ->
           {"name", "supported_languages", "process_image", "process_batch",
            "is_available", "get_version"}
      [] c = "MockSearchAdapter" ->
           {"name", "index_document", "index_batch", "search", "get_document",
            "update_document", "delete_document", "count_documents",
            "clear_index", "is_available", "get_version"}
      [] OTHER ->
           {"name", "supported_languages", "process_image", "translate",
            "translate_batch", "index_document", "index_batch", "search",
            "delete_document", "close"}

PROTOCOLS_AVAILABLE == TRUE

\* --------------------------------------------------------------- variables
VARIABLES
    registry,        \* _registry: type -> (name -> class)
    instances,       \* _instances: type -> (name -> instance)
    active,          \* _active: type -> instance or None
    switch_history,  \* _switch_history: list of switch events
    heap,            \* the adapter objects constructed so far
    calls,           \* state-changing calls made so far
    last,            \* the last call: its arguments and what the caller saw
    threads          \* the switch call each thread is in: position, locals

vars ==
    <<registry, instances, active, switch_history, heap, calls, last, threads>>

\* The manager's fields as one value, so that a call is a function of it.
Mgr ==
    [registry |-> registry, instances |-> instances, active |-> active,
     switch_history |-> switch_history, heap |-> heap]

EmptyDict == [x \in {} |-> NoName]

\* d[k] = v
Put(d, k, v) == [x \in (DOMAIN d) \cup {k} |-> IF x = k THEN v ELSE d[x]]

\* The threads that call switch without mutual exclusion.
Threads == {"T1", "T2"}

\* A thread that is in no call.  `alone` says that no other call has taken
\* a step since the thread's call began, `start` is the manager then.
IdleThread ==
    [pc |-> "idle", type |-> NoName, name |-> NoName,
     previous_adapter |-> NoInstance, adapter_class |-> NoName,
     instance |-> NoInstance, constructed |-> FALSE, alone |-> TRUE,
     start |-> <<>>]

NoCall ==
    [op |-> "init", type |-> NoName, name |-> NoName, exc |-> NoName,
     names |-> {}, ret |-> NoInstance,
     closeRaised |-> FALSE, ctorRaised |-> FALSE, auto |-> FALSE,
     attempts |-> 0, missing |-> <<>>, found |-> <<>>,
     value |-> [cls |-> "none", scaled |-> 0]]

Init ==
    /\ registry = [t \in AdapterTypes |-> EmptyDict]
    /\ instances = [t \in AdapterTypes |-> EmptyDict]
    /\ active = [t \in AdapterTypes |-> NoInstance]
    /\ switch_history = <<>>
    /\ heap = <<>>
    /\ calls = 0
    /\ last = NoCall
    /\ threads = [th \in Threads |-> IdleThread]

\* ------------------------------------------------------ protocol validation
protocol_methods(t) ==
    CASE t = "ocr" -> <<"name", "supported_languages", "process_image">>
      [] t = "translator" ->
           <<"name", "supported_languages", "translate", "translate_batch">>
      [] t = "search" ->
           <<"name", "index_document", "index_batch", "search",
             "delete_document">>
      [] OTHER -> <<>>

get_protocol_for_type(t) ==
    IF ~PROTOCOLS_AVAILABLE THEN NoName
    ELSE IF t \in AdapterTypes THEN t ELSE NoName

missing_methods_first_only(c, t) ==
    LET Lacks(meth) == meth \notin ClassAttrs(c)
        all == SelectSeq(protocol_methods(t), Lacks)
    IN IF all = <<>> THEN <<>> ELSE <<Head(all)>>

\* The required operations the class does not expose, in the order of the
\* required list; the message of PluginValidationError joins them.
missing_methods(c, t) ==
    LET Lacks(meth) == meth \notin ClassAttrs(c)
    IN SelectSeq(protocol_methods(t), Lacks)

\* TRUE when validation passes, FALSE when it raises PluginValidationError.
\* The signature check that follows catches its own exceptions.
validate_protocol(c, t) ==
    IF get_protocol_for_type(t) = NoName THEN TRUE
    ELSE missing_methods(c, t) = <<>>

\* ------------------------------------------------------------ configuration
\* A value of the configuration tree under plugins.<type>: a table or a
\* string.
Table(d) == [kind |-> "dict", value |-> d]
Str(x) == [kind |-> "str", value |-> x]

\* The configuration tree the manager is constructed with, as config.py
\* reads it: the engine setting of the type and a table for ocr.tesseract,
\* none for the mocks.
Config ==
    [plugins |-> [ocr |-> [engine |-> Str("tesseract"),
                           tesseract |-> Table([lang |-> "eng"])]]]

\* dict.get(key, {}) on a mapping.
GetOr(d, k) == IF k \in DOMAIN d THEN d[k] ELSE <<>>

\* bool(x) of a configuration value.
truthy(x) == IF x.kind = "dict" THEN DOMAIN x.value # {} ELSE x.value # ""

\* dict(adapter_config) copies a table and raises ValueError on a non-empty
\* string, whose elements are no key-value pairs.
get_adapter_config(t, n) ==
    IF t \notin {"ocr", "translator", "search"}
    THEN [exc |-> "PluginManagerError", config |-> EmptyDict]
    ELSE LET type_config == GetOr(GetOr(Config, "plugins"), t)
             adapter_config == IF n \in DOMAIN type_config THEN type_config[n]
                               ELSE Table(EmptyDict)
         IN IF ~truthy(adapter_config)
            THEN [exc |-> NoName, config |-> EmptyDict]
            ELSE IF adapter_config.kind = "dict"
            THEN [exc |-> NoName, config |-> adapter_config.value]
            ELSE [exc |-> "ValueError", config |-> EmptyDict]

\* ----------------------------------------------------------------- register
register_clears_active(m, t, n, c, validate) ==
    IF t \notin DOMAIN m.registry
    THEN [m |-> m, exc |-> "PluginManagerError", missing |-> <<>>]
    ELSE [m |-> [m EXCEPT !.registry[t] = Put(@, n, c),
                          !.active[t] = NoInstance],
          exc |-> NoName, missing |-> <<>>]

register_before_validation(m, t, n, c, validate) ==
    IF t \notin DOMAIN m.registry
    THEN [m |-> m, exc |-> "PluginManagerError", missing |-> <<>>]
    ELSE IF validate /\ ~validate_protocol(c, t)
    THEN [m |-> [m EXCEPT !.registry[t] = Put(@, n, c)],
          exc |-> "PluginValidationError", missing |-> missing_methods(c, t)]
    ELSE [m |-> [m EXCEPT !.registry[t] = Put(@, n, c)], exc |-> NoName,
          missing |-> <<>>]

\* `missing` are the operations the message of PluginValidationError names.
register(m, t, n, c, validate) ==
    IF t \notin DOMAIN m.registry
    THEN [m |-> m, exc |-> "PluginManagerError", missing |-> <<>>]
    ELSE IF validate /\ ~validate_protocol(c, t)
    THEN [m |-> m, exc |-> "PluginValidationError",
          missing |-> missing_methods(c, t)]
    ELSE [m |-> [m EXCEPT !.registry[t] = Put(@, n, c)], exc |-> NoName,
          missing |-> <<>>]

\* ------------------------------------------------------------------- switch
\* The name under which an instance is cached, or None.
find_instance_name(m, t, inst) ==
    IF \E name \in DOMAIN m.instances[t] : m.instances[t][name] = inst
    THEN CHOOSE name \in DOMAIN m.instances[t] : m.instances[t][name] = inst
    ELSE NoName

HasClose(m, inst) == "close" \in ClassAttrs(m.heap[inst].cls)

CloseFailureEscapes_uncaught(closeRaises) == closeRaises

\* Whether an exception raised by previous_adapter.close() leaves the
\* try/except around the call: the handler catches Exception and logs it.
CloseFailureEscapes(closeRaises) == FALSE

invoke_close_every_type(m, t) ==
    [m EXCEPT !.heap =
        [i \in DOMAIN m.heap |->
            IF /\ \E u \in DOMAIN m.active : m.active[u] = i
               /\ HasClose(m, i)
            THEN [m.heap[i] EXCEPT !.closes = @ + 1]
            ELSE m.heap[i]]]

\* The cleanup hook of the outgoing instance: close() is invoked on it.
invoke_close(m, t) ==
    LET previous_adapter == m.active[t]
    IN IF HasClose(m, previous_adapter)
       THEN [m EXCEPT !.heap[previous_adapter].closes = @ + 1]
       ELSE m

track_switch_none(m, t, n) == m

track_switch_prepend(m, t, n) ==
    [m EXCEPT !.switch_history =
        <<[type |-> t, from |-> find_instance_name(m, t, m.active[t]),
           to |-> n, timestamp |-> Len(m.switch_history) + 1]>> \o @]

track_switch_unnamed(m, t, n) ==
    [m EXCEPT !.switch_history =
        Append(@, [type |-> t, from |-> NoName, to |-> n,
                   timestamp |-> Len(m.switch_history) + 1])]

\* The history entry of a switch away from previous_adapter.
track_switch(m, t, n) ==
    [m EXCEPT !.switch_history =
        Append(@, [type |-> t,
                   from |-> find_instance_name(m, t, m.active[t]),
                   to |-> n,
                   timestamp |-> Len(m.switch_history) + 1])]

is_cached_never(m, t, n) == FALSE

\* Whether the incoming adapter is taken from the instance cache.
is_cached(m, t, n) == n \in DOMAIN m.instances[t]

\* adapter_class(config=config) returned: the new object is cached.
cache_new_instance(m, t, n) ==
    [m EXCEPT !.heap = Append(@, [cls |-> m.registry[t][n], closes |-> 0]),
              !.instances[t] = Put(@, n, Len(m.heap) + 1)]

\* self._active[adapter_type] = instance
set_active(m, t, inst) == [m EXCEPT !.active[t] = inst]

ctor_failure_clears_active(m, t, n) == [m EXCEPT !.active[t] = NoInstance]

\* What the construction failure of the incoming adapter leaves behind.
ctor_failure(m, t, n) == m

not_registered_lists_cached(m, t) ==
    [m |-> m, exc |-> "PluginLoadError", names |-> DOMAIN m.instances[t]]

\* The failure of a switch to a name that is not registered; `names` are
\* the names its message lists.
not_registered(m, t) ==
    [m |-> m, exc |-> "PluginLoadError", names |-> DOMAIN m.registry[t]]

switch_closes_after_construction(m, t, n, closeRaises, ctorRaises) ==
    IF t \notin DOMAIN m.registry
    THEN [m |-> m, exc |-> "PluginManagerError", names |-> {}]
    ELSE IF n \notin DOMAIN m.registry[t]
    THEN not_registered(m, t)
    ELSE
      LET hadPrevious == m.active[t] # NoInstance
          closed == IF hadPrevious THEN track_switch(invoke_close(m, t), t, n)
                    ELSE m
      IN IF is_cached(m, t, n)
         THEN [m |-> set_active(closed, t, m.instances[t][n]),
               exc |-> NoName, names |-> {}]
         ELSE IF ctorRaises
         THEN [m |-> m, exc |-> "PluginLoadError", names |-> {}]
         ELSE LET m3 == cache_new_instance(closed, t, n)
              IN [m |-> set_active(m3, t, m3.instances[t][n]),
                  exc |-> NoName, names |-> {}]

\* switch(adapter_type, adapter_name): the two checks, the cleanup of the
\* outgoing instance and its history entry, then the cache lookup or the
\* construction, then the write of the active slot.
switch(m, t, n, closeRaises, ctorRaises) ==
    IF t \notin DOMAIN m.registry
    THEN [m |-> m, exc |-> "PluginManagerError", names |-> {}]
    ELSE IF n \notin DOMAIN m.registry[t]
    THEN not_registered(m, t)
    ELSE
      LET hadPrevious == m.active[t] # NoInstance
          m1 == IF hadPrevious THEN invoke_close(m, t) ELSE m
          escaped == /\ hadPrevious
                     /\ HasClose(m, m.active[t])
                     /\ CloseFailureEscapes(closeRaises)
          m2 == IF hadPrevious THEN track_switch(m1, t, n) ELSE m1
      IN IF escaped
         THEN [m |-> m1, exc |-> "Exception", names |-> {}]
         ELSE IF is_cached(m2, t, n)
         THEN [m |-> set_active(m2, t, m2.instances[t][n]),
               exc |-> NoName, names |-> {}]
         ELSE IF ctorRaises
         THEN [m |-> ctor_failure(m2, t, n), exc |-> "PluginLoadError",
               names |-> {}]
         ELSE LET m3 == cache_new_instance(m2, t, n)
              IN [m |-> set_active(m3, t, m3.instances[t][n]),
                  exc |-> NoName, names |-> {}]

\* ------------------------------------------------ switch, statement by
\* statement.  Without a lock round the call, another thread's statements
\* run between these; each operator is one group of statements that reads
\* or writes the manager, on the locals of the calling thread.

\* previous_adapter.close() and the history entry, for the previous_adapter
\* the thread read when its call began.
cleanup_previous(m, t, n, previous_adapter) ==
    IF previous_adapter = NoInstance THEN m
    ELSE LET previous_name == find_instance_name(m, t, previous_adapter)
             m1 == IF HasClose(m, previous_adapter)
                   THEN [m EXCEPT !.heap[previous_adapter].closes = @ + 1]
                   ELSE m
         IN [m1 EXCEPT !.switch_history =
                Append(@, [type |-> t, from |-> previous_name, to |-> n,
                           timestamp |-> Len(m.switch_history) + 1])]

construct_instance_shared(m, c) ==
    IF \E i \in 1..Len(m.heap) : m.heap[i].cls = c
    THEN [m |-> m,
          instance |-> CHOOSE i \in 1..Len(m.heap) : m.heap[i].cls = c]
    ELSE [m |-> [m EXCEPT !.heap = Append(@, [cls |-> c, closes |-> 0])],
          instance |-> Len(m.heap) + 1]

\* instance = adapter_class(config=config): a new object.
construct_instance(m, c) ==
    [m |-> [m EXCEPT !.heap = Append(@, [cls |-> c, closes |-> 0])],
     instance |-> Len(m.heap) + 1]

\* self._instances[adapter_type][adapter_name] = instance
store_instance(m, t, n, inst) == [m EXCEPT !.instances[t] = Put(@, n, inst)]

\* ------------------------------------------------------------------ queries
get_switch_history(m, t) ==
    LET OfType(h) == h.type = t
    IN IF t = NoName THEN m.switch_history
       ELSE SelectSeq(m.switch_history, OfType)

get_active(m, t) ==
    IF t \in DOMAIN m.active THEN m.active[t] ELSE NoInstance

get_registered(m, t) ==
    IF t \in DOMAIN m.registry THEN m.registry[t] ELSE EmptyDict

list_available_cached(m, t) ==
    IF t \notin DOMAIN m.instances THEN {} ELSE DOMAIN m.instances[t]

list_available(m, t) ==
    IF t \notin DOMAIN m.registry THEN {} ELSE DOMAIN m.registry[t]

list_active(m) ==
    [t \in DOMAIN m.active |->
        IF m.active[t] # NoInstance
        THEN find_instance_name(m, t, m.active[t])
        ELSE NoName]

\* ------------------------------------------------------------- load_adapter
\* What importing indexao.adapters.<type>.<name>, finding its adapter class
\* and constructing it can come to, per adapter name.
LoadFailures == {"import_error", "no_class", "ctor_error"}
LoadOutcomes == LoadFailures \cup ClassArgs

install_loaded_uncached(m, t, n, c, inst) ==
    LET r == register(m, t, n, c, TRUE)
    IN IF r.exc # NoName
       THEN [m |-> r.m, exc |-> r.exc]
       ELSE [m |-> [r.m EXCEPT !.active[t] = inst], exc |-> NoName]

install_loaded_closing_previous(m, t, n, c, inst) ==
    LET r == register(m, t, n, c, TRUE)
        m1 == IF r.m.active[t] # NoInstance THEN invoke_close(r.m, t)
              ELSE r.m
    IN IF r.exc # NoName
       THEN [m |-> r.m, exc |-> r.exc]
       ELSE [m |-> [m1 EXCEPT !.instances[t] = Put(@, n, inst),
                              !.active[t] = inst],
             exc |-> NoName]

install_loaded_unregistered(m, t, n, c, inst) ==
    LET r == register(m, t, n, c, TRUE)
    IN IF r.exc # NoName
       THEN [m |-> r.m, exc |-> r.exc]
       ELSE [m |-> [m EXCEPT !.instances[t] = Put(@, n, inst),
                             !.active[t] = inst],
             exc |-> NoName]

\* The auto-register step: register with validation, then install.
install_loaded(m, t, n, c, inst) ==
    LET r == register(m, t, n, c, TRUE)
    IN IF r.exc # NoName
       THEN [m |-> r.m, exc |-> r.exc]
       ELSE [m |-> [r.m EXCEPT !.instances[t] = Put(@, n, inst),
                               !.active[t] = inst],
             exc |-> NoName]

\* The body of the try block: the exception it raises, if any.
load_attempt(m, t, n, auto_register, env) ==
    IF env[n] = "import_error"
    THEN [m |-> m, exc |-> "ImportError", ret |-> NoInstance]
    ELSE IF env[n] \in {"no_class", "ctor_error"}
    THEN [m |-> m, exc |-> "PluginLoadError", ret |-> NoInstance]
    ELSE
      LET inst == Len(m.heap) + 1
          m1 == [m EXCEPT !.heap = Append(@, [cls |-> env[n], closes |-> 0])]
      IN IF ~auto_register
         THEN [m |-> m1, exc |-> NoName, ret |-> inst]
         ELSE LET r == install_loaded(m1, t, n, env[n], inst)
              IN [m |-> r.m, exc |-> r.exc,
                  ret |-> IF r.exc = NoName THEN inst ELSE NoInstance]

falls_back_ignores_flag(n, fallback_to_mock) == n # "mock"

\* Whether a failed attempt is followed by the fallback call.
falls_back(n, fallback_to_mock) == fallback_to_mock /\ n # "mock"

load_adapter_fallback_keeps_name(m, t, n, auto_register, fallback_to_mock, env) ==
    IF t \notin {"ocr", "translator", "search"}
    THEN [m |-> m, exc |-> "ValueError", ret |-> NoInstance, attempts |-> 0]
    ELSE
      LET a == load_attempt(m, t, n, auto_register, env)
      IN IF a.exc = NoName
         THEN [m |-> a.m, exc |-> NoName, ret |-> a.ret, attempts |-> 1]
         ELSE IF falls_back(n, fallback_to_mock)
         THEN LET f == load_attempt(a.m, t, n, auto_register,
                                    [env EXCEPT ![n] = env["mock"]])
              IN [m |-> f.m,
                  exc |-> IF f.exc = NoName THEN NoName ELSE "PluginLoadError",
                  ret |-> f.ret, attempts |-> 2]
         ELSE [m |-> a.m, exc |-> "PluginLoadError", ret |-> NoInstance,
               attempts |-> 1]

\* load_adapter(adapter_type, adapter_name, auto_register, fallback_to_mock):
\* one attempt and, when it fails and falls back, the same call for "mock"
\* with the fallback disabled.
RECURSIVE load_adapter(_, _, _, _, _, _)
load_adapter(m, t, n, auto_register, fallback_to_mock, env) ==
    IF t \notin {"ocr", "translator", "search"}
    THEN [m |-> m, exc |-> "ValueError", ret |-> NoInstance, attempts |-> 0]
    ELSE
      LET a == load_attempt(m, t, n, auto_register, env)
      IN IF a.exc = NoName
         THEN [m |-> a.m, exc |-> NoName, ret |-> a.ret, attempts |-> 1]
         ELSE IF falls_back(n, fallback_to_mock)
         THEN LET f == load_adapter(a.m, t, "mock", auto_register, FALSE, env)
              IN [f EXCEPT !.attempts = @ + 1]
         ELSE [m |-> a.m, exc |-> "PluginLoadError", ret |-> NoInstance,
               attempts |-> 1]

\* ---------------------------------------------------------------- discovery
\* Class names, file names and plugin names are Python strings that the
\* scanner takes apart; they are sequences of one-character strings here.
UpperChars ==
    <<"A", "B", "C", "D", "E", "F", "G", "H", "I", "J", "K", "L", "M", "N",
      "O", "P", "Q", "R", "S", "T", "U", "V", "W", "X", "Y", "Z">>
LowerChars ==
    <<"a", "b", "c", "d", "e", "f", "g", "h", "i", "j", "k", "l", "m", "n",
      "o", "p", "q", "r", "s", "t", "u", "v", "w", "x", "y", "z">>

isupper(ch) == \E i \in 1..Len(UpperChars) : UpperChars[i] = ch
islower(ch) == \E i \in 1..Len(LowerChars) : LowerChars[i] = ch
lower(ch) ==
    IF isupper(ch)
    THEN LowerChars[CHOOSE i \in 1..Len(UpperChars) : UpperChars[i] = ch]
    ELSE ch

endswith(s, suffix) ==
    /\ Len(s) >= Len(suffix)
    /\ SubSeq(s, Len(s) - Len(suffix) + 1, Len(s)) = suffix

startswith(s, prefix) ==
    /\ Len(s) >= Len(prefix)
    /\ SubSeq(s, 1, Len(prefix)) = prefix

\* The suffixes _class_name_to_plugin_name removes, in its order.
SfxAdapter ==
    <<"A", "d", "a", "p", "t", "e", "r">>
SfxOCR ==
    <<"O", "C", "R">>
SfxTranslator ==
    <<"T", "r", "a", "n", "s", "l", "a", "t", "o", "r">>
SfxSearch ==
    <<"S", "e", "a", "r", "c", "h">>
SfxBackend ==
    <<"B", "a", "c", "k", "e", "n", "d">>
SfxEngine ==
    <<"E", "n", "g", "i", "n", "e">>

Suffixes ==
    <<SfxAdapter, SfxOCR, SfxTranslator, SfxSearch, SfxBackend, SfxEngine>>

SuffixesWithoutOCR ==
    <<SfxAdapter, SfxTranslator, SfxSearch, SfxBackend, SfxEngine>>

\* for suffix in [...]: if class_name.endswith(suffix): strip it
RECURSIVE strip_suffixes(_, _)
strip_suffixes(class_name, suffixes) ==
    IF suffixes = <<>> THEN class_name
    ELSE LET suffix == Head(suffixes)
             stripped == IF endswith(class_name, suffix)
                         THEN SubSeq(class_name, 1,
                                     Len(class_name) - Len(suffix))
                         ELSE class_name
         IN strip_suffixes(stripped, Tail(suffixes))

\* A hyphen before an upper-case character that follows a lower-case one;
\* every character in lower case.  i is the position, from 1.
RECURSIVE kebab(_, _)
kebab(class_name, i) ==
    IF i > Len(class_name) THEN <<>>
    ELSE (IF /\ isupper(class_name[i])
             /\ i > 1
             /\ islower(class_name[i - 1])
          THEN <<"-">> ELSE <<>>)
         \o <<lower(class_name[i])>>
         \o kebab(class_name, i + 1)

class_name_to_plugin_name_keeps_ocr(class_name) ==
    kebab(strip_suffixes(class_name, SuffixesWithoutOCR), 1)

class_name_to_plugin_name(class_name) ==
    kebab(strip_suffixes(class_name, Suffixes), 1)

\* The class names, file names and plugin names of the scanned units.
ClsTesseractAdapter ==
    <<"T", "e", "s", "s", "e", "r", "a", "c", "t", "A", "d", "a", "p", "t",
    "e", "r">>
ClsMockOCRAdapter ==
    <<"M", "o", "c", "k", "O", "C", "R", "A", "d", "a", "p", "t", "e", "r">>
ClsMyCoolAdapter ==
    <<"M", "y", "C", "o", "o", "l", "A", "d", "a", "p", "t", "e", "r">>
ClsTesseractOCR ==
    <<"T", "e", "s", "s", "e", "r", "a", "c", "t", "O", "C", "R">>
ClsMockTranslatorAdapter ==
    <<"M", "o", "c", "k", "T", "r", "a", "n", "s", "l", "a", "t", "o", "r",
    "A", "d", "a", "p", "t", "e", "r">>
ClsMockSearchAdapter ==
    <<"M", "o", "c", "k", "S", "e", "a", "r", "c", "h", "A", "d", "a", "p",
    "t", "e", "r">>
ClsMeilisearchAdapter ==
    <<"M", "e", "i", "l", "i", "s", "e", "a", "r", "c", "h", "A", "d", "a",
    "p", "t", "e", "r">>
ClsOCRAdapter ==
    <<"O", "C", "R", "A", "d", "a", "p", "t", "e", "r">>
FnMock ==
    <<"m", "o", "c", "k", ".", "p", "y">>
FnTesseract ==
    <<"t", "e", "s", "s", "e", "r", "a", "c", "t", ".", "p", "y">>
FnMeilisearch ==
    <<"m", "e", "i", "l", "i", "s", "e", "a", "r", "c", "h", ".", "p", "y">>
FnBase ==
    <<"b", "a", "s", "e", ".", "p", "y">>
FnInit ==
    <<"_", "_", "i", "n", "i", "t", "_", "_", ".", "p", "y">>
NmMock ==
    <<"m", "o", "c", "k">>
NmTesseract ==
    <<"t", "e", "s", "s", "e", "r", "a", "c", "t">>
NmMyCool ==
    <<"m", "y", "-", "c", "o", "o", "l">>
NmMeilisearch ==
    <<"m", "e", "i", "l", "i", "s", "e", "a", "r", "c", "h">>
NmFoo ==
    <<"f", "o", "o">>

\* A class statement of a scanned file: its name, what ast.literal_eval
\* makes of its __plugin__ assignment, and the lines of its docstring.
\*   plugin_kind "none":    no __plugin__ assignment, or one whose value is
\*                          not a literal (plugin_dict stays None)
\*   plugin_kind "mapping": a dict literal, held in `plugin`
\*   plugin_kind "literal": a non-empty literal that is not a dict
ClassDef(name, plugin_kind, plugin, doc) ==
    [name |-> name, plugin_kind |-> plugin_kind, plugin |-> plugin,
     doc |-> doc]

\* A .py file of an adapter directory; `classes` are its class statements
\* in the order of ast.walk.
SourceFile(fname, parses, classes) ==
    [fname |-> fname, parses |-> parses, classes |-> classes]

\* d.get(k, default)
dict_get(d, k, default) == IF k \in DOMAIN d THEN d[k] ELSE default

\* description.split('\n')[0] if description else ""
first_line(doc) == IF doc # <<>> THEN Head(doc) ELSE ""

\* The metadata of the first class whose name ends with "Adapter": `found`
\* holds it, or nothing when the file does not parse or has no such class.
\* `exc` is the exception that leaves the method.
extract_plugin_metadata(file, t) ==
    IF ~file.parses THEN [exc |-> NoName, found |-> <<>>]
    ELSE
      LET adapters == {i \in 1..Len(file.classes) :
                          endswith(file.classes[i].name, SfxAdapter)}
      IN IF adapters = {} THEN [exc |-> NoName, found |-> <<>>]
         ELSE
           LET node == file.classes[CHOOSE i \in adapters :
                                       \A j \in adapters : i <= j]
               plugin_dict == node.plugin
               inferred == class_name_to_plugin_name(node.name)
               description == first_line(node.doc)
           IN IF node.plugin_kind = "literal"
              THEN [exc |-> "AttributeError", found |-> <<>>]
              ELSE IF node.plugin_kind = "mapping" /\ DOMAIN plugin_dict # {}
              THEN [exc |-> NoName,
                    found |-> <<[name |-> dict_get(plugin_dict, "name",
                                                   inferred),
                                 type |-> t,
                                 version |-> dict_get(plugin_dict, "version",
                                                      "0.1.0"),
                                 description |->
                                    dict_get(plugin_dict, "description",
                                             description),
                                 dependencies |->
                                    dict_get(plugin_dict, "dependencies",
                                             <<>>),
                                 enabled |-> dict_get(plugin_dict, "enabled",
                                                      TRUE),
                                 priority |-> dict_get(plugin_dict,
                                                       "priority", 0)]>>]
              ELSE [exc |-> NoName,
                    found |-> <<[name |-> inferred, type |-> t,
                                 version |-> "0.1.0",
                                 description |-> description,
                                 dependencies |-> <<>>, enabled |-> TRUE,
                                 priority |-> 0]>>]

\* The files of one adapter directory, in the order glob yields them.
RECURSIVE scan_files(_, _)
scan_files(files, t) ==
    IF files = <<>> THEN <<>>
    ELSE LET py_file == Head(files)
         IN (IF startswith(py_file.fname, <<"_">>) \/ py_file.fname = FnBase
             THEN <<>>
             ELSE extract_plugin_metadata(py_file, t).found)
            \o scan_files(Tail(files), t)

\* fs: the directories under base_path, each with its files.
RECURSIVE scan_types(_, _)
scan_types(fs, adapter_types) ==
    IF adapter_types = <<>> THEN <<>>
    ELSE LET adapter_type == Head(adapter_types)
         IN (IF adapter_type \notin DOMAIN fs THEN <<>>
             ELSE scan_files(fs[adapter_type], adapter_type))
            \o scan_types(fs, Tail(adapter_types))

discover_plugins_registers_found(m, fs, types_given, adapter_types) ==
    LET found == scan_types(fs, IF types_given THEN adapter_types
                                ELSE <<"ocr", "translator", "search">>)
    IN [m |-> IF found = <<>> THEN m
              ELSE [m EXCEPT !.registry[found[1].type] =
                                Put(@, "mock", "MockOCRAdapter")],
        found |-> found]

\* types_given is FALSE when adapter_types is None.
discover_plugins(m, fs, types_given, adapter_types) ==
    [m |-> m,
     found |-> scan_types(fs, IF types_given THEN adapter_types
                              ELSE <<"ocr", "translator", "search">>)]

\* The adapter directories of the repository.
RepoFS ==
    [ocr |-> <<SourceFile(FnInit, TRUE, <<>>),
               SourceFile(FnBase, TRUE,
                          <<ClassDef(ClsOCRAdapter, "none", EmptyDict,
                                     <<"Protocol for OCR adapters.">>)>>),
               SourceFile(FnMock, TRUE,
                          <<ClassDef(ClsMockOCRAdapter, "none", EmptyDict,
                                     <<"Mock OCR adapter.">>)>>),
               SourceFile(FnTesseract, TRUE,
                          <<ClassDef(ClsTesseractOCR, "none", EmptyDict,
                                     <<"Tesseract OCR adapter.">>)>>)>>,
     translator |-> <<SourceFile(FnInit, TRUE, <<>>),
                      SourceFile(FnMock, TRUE,
                                 <<ClassDef(ClsMockTranslatorAdapter, "none",
                                            EmptyDict,
                                            <<"Mock translator.">>)>>)>>,
     search |-> <<SourceFile(FnInit, TRUE, <<>>),
                  SourceFile(FnMeilisearch, TRUE,
                             <<ClassDef(ClsMeilisearchAdapter, "none",
                                        EmptyDict, <<"Meilisearch.">>)>>),
                  SourceFile(FnMock, TRUE,
                             <<ClassDef(ClsMockSearchAdapter, "none",
                                        EmptyDict,
                                        <<"Mock search backend.">>)>>)>>]

\* A base_path whose ocr directory holds mock.py alone.
MockOnlyFS ==
    [ocr |-> <<SourceFile(FnMock, TRUE,
                          <<ClassDef(ClsMockOCRAdapter, "none", EmptyDict,
                                     <<"Mock OCR adapter.">>)>>)>>]

\* The adapter name a caller passes to switch for a discovered plugin name.
AsName(chars) ==
    CASE chars = NmMock -> "mock"
      [] chars = NmTesseract -> "tesseract"
      [] OTHER -> "unlisted"

\* ------------------------------------------------------------ result values
\* A Python float: finite (its value times Scale), nan, inf or -inf.
Finite(k) == [cls |-> "finite", scaled |-> k]
NaN == [cls |-> "nan", scaled |-> 0]
PosInf == [cls |-> "inf", scaled |-> 0]
NegInf == [cls |-> "-inf", scaled |-> 0]

FloatArgs == {Finite(k) : k \in (0 - Scale)..(2 * Scale)}
                 \cup {NaN, PosInf, NegInf}

\* a <= b on floats: false when either side is nan.
float_le(a, b) ==
    IF a.cls = "nan" \/ b.cls = "nan" THEN FALSE
    ELSE IF a.cls = "-inf" \/ b.cls = "inf" THEN TRUE
    ELSE IF a.cls = "inf" \/ b.cls = "-inf" THEN FALSE
    ELSE a.scaled <= b.scaled

float_lt(a, b) == float_le(a, b) /\ ~float_le(b, a)

in_unit_interval_open(x) ==
    float_lt(Finite(0), x) /\ float_lt(x, Finite(Scale))

\* 0.0 <= x <= 1.0
in_unit_interval(x) ==
    float_le(Finite(0), x) /\ float_le(x, Finite(Scale))

\* The dataclass constructors: __post_init__ runs after the fields are set,
\* and no object is returned when it raises.
OCRResult(confidence) ==
    IF ~in_unit_interval(confidence)
    THEN [exc |-> "ValueError", confidence |-> confidence]
    ELSE [exc |-> NoName, confidence |-> confidence]

TranslationResult(confidence) ==
    IF ~in_unit_interval(confidence)
    THEN [exc |-> "ValueError", confidence |-> confidence]
    ELSE [exc |-> NoName, confidence |-> confidence]

SearchResult(score) ==
    IF ~in_unit_interval(score)
    THEN [exc |-> "ValueError", score |-> score]
    ELSE [exc |-> NoName, score |-> score]

\* ------------------------------------------------------------------ actions
SetMgr(m) ==
    /\ registry' = m.registry
    /\ instances' = m.instances
    /\ active' = m.active
    /\ switch_history' = m.switch_history
    /\ heap' = m.heap

CallRegister(t, n, c, validate) ==
    /\ LET r == register(Mgr, t, n, c, validate)
       IN /\ SetMgr(r.m)
          /\ last' = [NoCall EXCEPT !.op = "register", !.type = t, !.name = n,
                                    !.exc = r.exc, !.missing = r.missing]
    /\ calls' = calls + 1
    /\ UNCHANGED threads

\* closeRaises: close() of the outgoing instance raises; ctorRaises: the
\* constructor of the incoming class raises.  The outcome of a step the
\* call does not take is no input of the call.
CallSwitch(t, n, closeRaises, ctorRaises) ==
    /\ LET r == switch(Mgr, t, n, closeRaises, ctorRaises)
           resolved == t \in DOMAIN registry /\ n \in DOMAIN registry[t]
           closing == /\ resolved
                      /\ active[t] # NoInstance
                      /\ HasClose(Mgr, active[t])
           constructing == resolved /\ ~is_cached(Mgr, t, n)
       IN /\ closeRaises => closing
          /\ ctorRaises => constructing
          /\ SetMgr(r.m)
          /\ last' = [NoCall EXCEPT !.op = "switch", !.type = t, !.name = n,
                                    !.exc = r.exc, !.names = r.names,
                                    !.closeRaised = closeRaises,
                                    !.ctorRaised = ctorRaises]
    /\ calls' = calls + 1
    /\ UNCHANGED threads

CallLoadAdapter(t, n, auto_register, fallback_to_mock, env) ==
    /\ LET r == load_adapter(Mgr, t, n, auto_register, fallback_to_mock, env)
       IN /\ SetMgr(r.m)
          /\ last' = [NoCall EXCEPT !.op = "load_adapter", !.type = t,
                                    !.name = n, !.exc = r.exc, !.ret = r.ret,
                                    !.auto = auto_register,
                                    !.attempts = r.attempts]
    /\ calls' = calls + 1
    /\ UNCHANGED threads

CallGetActive(t) ==
    /\ last' = [NoCall EXCEPT !.op = "get_active", !.type = t,
                              !.ret = get_active(Mgr, t)]
    /\ UNCHANGED <<registry, instances, active, switch_history, heap, calls,
                   threads>>

CallListActive ==
    /\ last' = [NoCall EXCEPT !.op = "list_active"]
    /\ UNCHANGED <<registry, instances, active, switch_history, heap, calls,
                   threads>>

CallListAvailable(t) ==
    /\ last' = [NoCall EXCEPT !.op = "list_available", !.type = t,
                              !.names = list_available(Mgr, t)]
    /\ UNCHANGED <<registry, instances, active, switch_history, heap, calls,
                   threads>>

CallGetRegistered(t) ==
    /\ last' = [NoCall EXCEPT !.op = "get_registered", !.type = t,
                              !.names = DOMAIN get_registered(Mgr, t)]
    /\ UNCHANGED <<registry, instances, active, switch_history, heap, calls,
                   threads>>

CallGetSwitchHistory(t) ==
    /\ last' = [NoCall EXCEPT !.op = "get_switch_history", !.type = t]
    /\ UNCHANGED <<registry, instances, active, switch_history, heap, calls,
                   threads>>

CallGetAdapterConfig(t, n) ==
    /\ last' = [NoCall EXCEPT !.op = "get_adapter_config", !.type = t,
                              !.name = n,
                              !.exc = get_adapter_config(t, n).exc]
    /\ UNCHANGED <<registry, instances, active, switch_history, heap, calls,
                   threads>>

\* discover_plugins reads the adapter directories under base_path and parses
\* the files it finds.
CallDiscoverPlugins(fs, types_given, adapter_types) ==
    /\ LET r == discover_plugins(Mgr, fs, types_given, adapter_types)
       IN /\ SetMgr(r.m)
          /\ last' = [NoCall EXCEPT !.op = "discover_plugins",
                                    !.found = r.found]
    /\ UNCHANGED <<calls, threads>>

\* A caller takes the active instance of a type from get_active and calls
\* an operation of it, before any other call reaches the manager.
CallUseActive(t) ==
    /\ get_active(Mgr, t) # NoInstance
    /\ last' = [NoCall EXCEPT !.op = "use", !.type = t,
                              !.ret = get_active(Mgr, t)]
    /\ UNCHANGED <<registry, instances, active, switch_history, heap, calls,
                   threads>>

\* A result is constructed with the given confidence or score; `value` is
\* the field the constructor has set when __post_init__ runs.
CallOCRResult(confidence) ==
    /\ LET r == OCRResult(confidence)
       IN last' = [NoCall EXCEPT !.op = "OCRResult", !.exc = r.exc,
                                 !.value = r.confidence]
    /\ UNCHANGED <<registry, instances, active, switch_history, heap, calls,
                   threads>>

CallTranslationResult(confidence) ==
    /\ LET r == TranslationResult(confidence)
       IN last' = [NoCall EXCEPT !.op = "TranslationResult", !.exc = r.exc,
                                 !.value = r.confidence]
    /\ UNCHANGED <<registry, instances, active, switch_history, heap, calls,
                   threads>>

CallSearchResult(score) ==
    /\ LET r == SearchResult(score)
       IN last' = [NoCall EXCEPT !.op = "SearchResult", !.exc = r.exc,
                                 !.value = r.score]
    /\ UNCHANGED <<registry, instances, active, switch_history, heap, calls,
                   threads>>

\* Every other thread that is in a call has had a step of another call
\* run inside its own.
Disturb(th) ==
    [x \in Threads |->
        IF x # th /\ threads[x].pc # "idle"
        THEN [threads[x] EXCEPT !.alone = FALSE]
        ELSE threads[x]]

\* The thread's call has ended: its locals are kept for the record, its
\* snapshot of the start is dropped.
Ended(th, rec) ==
    [Disturb(th) EXCEPT ![th] = [rec EXCEPT !.pc = "idle", !.alone = TRUE,
                                            !.start = <<>>]]

\* A register call while switch calls are under way.
ThreadRegister(t, n, c) ==
    /\ LET r == register(Mgr, t, n, c, TRUE)
       IN /\ SetMgr(r.m)
          /\ last' = [NoCall EXCEPT !.op = "register", !.type = t, !.name = n,
                                    !.exc = r.exc, !.missing = r.missing]
    /\ calls' = calls + 1
    /\ threads' = [x \in Threads |->
                      IF threads[x].pc # "idle"
                      THEN [threads[x] EXCEPT !.alone = FALSE]
                      ELSE threads[x]]

\* The two checks and the read of the active slot.
SwitchBegin(th, t, n) ==
    /\ threads[th].pc = "idle"
    /\ calls' = calls + 1
    /\ UNCHANGED <<registry, instances, active, switch_history, heap>>
    /\ IF t \notin DOMAIN registry \/ n \notin DOMAIN registry[t]
       THEN LET r == switch(Mgr, t, n, FALSE, FALSE)
            IN /\ last' = [NoCall EXCEPT !.op = "switch", !.type = t,
                                         !.name = n, !.exc = r.exc,
                                         !.names = r.names]
               /\ threads' = Ended(th, [IdleThread EXCEPT !.type = t,
                                                          !.name = n])
       ELSE /\ last' = last
            /\ threads' =
                 [Disturb(th) EXCEPT ![th] =
                     [IdleThread EXCEPT !.pc = "cleanup", !.type = t,
                                        !.name = n,
                                        !.previous_adapter = active[t],
                                        !.start = Mgr]]

\* close() of the outgoing instance and the history entry.
SwitchCleanup(th) ==
    /\ threads[th].pc = "cleanup"
    /\ LET me == threads[th]
       IN SetMgr(cleanup_previous(Mgr, me.type, me.name, me.previous_adapter))
    /\ threads' = [Disturb(th) EXCEPT ![th].pc = "lookup"]
    /\ UNCHANGED <<calls, last>>

\* The read of the registered class and the cache lookup.
SwitchLookup(th) ==
    /\ threads[th].pc = "lookup"
    /\ LET me == threads[th]
           t == me.type
           n == me.name
       IN threads' =
            [Disturb(th) EXCEPT ![th] =
                IF is_cached(Mgr, t, n)
                THEN [me EXCEPT !.pc = "activate",
                                !.adapter_class = registry[t][n],
                                !.instance = instances[t][n]]
                ELSE [me EXCEPT !.pc = "construct",
                                !.adapter_class = registry[t][n]]]
    /\ UNCHANGED <<registry, instances, active, switch_history, heap, calls,
                   last>>

\* The constructor call.
SwitchConstruct(th, ctorRaises) ==
    /\ threads[th].pc = "construct"
    /\ LET me == threads[th]
           r == construct_instance(Mgr, me.adapter_class)
       IN IF ctorRaises
          THEN /\ UNCHANGED <<registry, instances, active, switch_history,
                              heap>>
               /\ threads' = Ended(th, me)
               /\ last' = [NoCall EXCEPT !.op = "switch", !.type = me.type,
                                         !.name = me.name,
                                         !.exc = "PluginLoadError",
                                         !.ctorRaised = TRUE]
          ELSE /\ SetMgr(r.m)
               /\ threads' = [Disturb(th) EXCEPT ![th] =
                                 [me EXCEPT !.pc = "store",
                                            !.instance = r.instance,
                                            !.constructed = TRUE]]
               /\ last' = last
    /\ UNCHANGED calls

\* The write of the cache entry.
SwitchStore(th) ==
    /\ threads[th].pc = "store"
    /\ LET me == threads[th]
       IN SetMgr(store_instance(Mgr, me.type, me.name, me.instance))
    /\ threads' = [Disturb(th) EXCEPT ![th].pc = "activate"]
    /\ UNCHANGED <<calls, last>>

\* The write of the active slot; the call returns.
SwitchActivate(th) ==
    /\ threads[th].pc = "activate"
    /\ LET me == threads[th]
       IN /\ SetMgr(set_active(Mgr, me.type, me.instance))
          /\ threads' = Ended(th, me)
          /\ last' = [NoCall EXCEPT !.op = "switch", !.type = me.type,
                                    !.name = me.name, !.ret = me.instance]
    /\ UNCHANGED calls

\* The environments of a load_adapter call: the outcome for the requested
\* name and, when a fallback follows, the outcome for "mock".
LoadEnvs(t, n, fallback_to_mock) ==
    {env \in [NameArgs -> LoadOutcomes] :
        /\ t \notin AdapterTypes => env[n] = "import_error"
        /\ \A x \in NameArgs :
              x # n =>
                IF /\ x = "mock"
                   /\ t \in AdapterTypes
                   /\ fallback_to_mock
                   /\ env[n] \in LoadFailures
                THEN TRUE
                ELSE env[x] = "import_error"}

\* The names get_adapter_config is asked for: the adapter names and a key
\* of plugins.<type> that holds a setting.
ConfigNameArgs == NameArgs \cup {"engine"}

\* Every operation, on one valid type.
Next ==
    \/ /\ calls < MaxCalls
       /\ \E t \in TypeArgs, n \in NameArgs, c \in ClassArgs, v \in BOOLEAN :
             CallRegister(t, n, c, v)
    \/ /\ calls < MaxCalls
       /\ \E t \in TypeArgs, n \in NameArgs, cr \in BOOLEAN, kr \in BOOLEAN :
             CallSwitch(t, n, cr, kr)
    \/ /\ calls < MaxCalls
       /\ \E t \in TypeArgs, n \in NameArgs, a \in BOOLEAN, f \in BOOLEAN :
             \E env \in LoadEnvs(t, n, f) : CallLoadAdapter(t, n, a, f, env)
    \/ \E t \in TypeArgs : CallGetActive(t)
    \/ CallListActive
    \/ \E t \in TypeArgs : CallListAvailable(t)
    \/ \E t \in TypeArgs : CallGetRegistered(t)
    \/ \E t \in TypeArgs \cup {NoName} : CallGetSwitchHistory(t)
    \/ \E t \in TypeArgs, n \in ConfigNameArgs :
          /\ t \notin AdapterTypes => n = "mock"
          /\ CallGetAdapterConfig(t, n)
    \/ CallDiscoverPlugins(MockOnlyFS, TRUE, <<"ocr">>)

Spec == Init /\ [][Next]_vars

\* Sequences of register and switch calls only.
NextRS ==
    \/ /\ calls < MaxCallsRS
       /\ \E n \in NameArgs, c \in ClassArgs, v \in BOOLEAN :
             CallRegister("ocr", n, c, v)
    \/ /\ calls < MaxCallsRS
       /\ \E n \in NameArgs, cr \in BOOLEAN, kr \in BOOLEAN :
             CallSwitch("ocr", n, cr, kr)

SpecRS == Init /\ [][NextRS]_vars

\* Two adapter types side by side, each call with a class that passes
\* validation for both.
TwoTypes == {"ocr", "search"}

NextTwoTypes ==
    \/ /\ calls < MaxCallsTwoTypes
       /\ \E t \in TwoTypes, n \in NameArgs :
             CallRegister(t, n, "ClosableAdapter", TRUE)
    \/ /\ calls < MaxCallsTwoTypes
       /\ \E t \in TwoTypes, n \in NameArgs, kr \in BOOLEAN :
             CallSwitch(t, n, FALSE, kr)
    \/ /\ calls < MaxCallsTwoTypes
       /\ \E t \in TwoTypes, n \in NameArgs, a \in BOOLEAN :
             \E env \in {e \in LoadEnvs(t, n, TRUE) :
                            \A x \in NameArgs :
                               e[x] \in {"import_error", "ClosableAdapter"}} :
                CallLoadAdapter(t, n, a, TRUE, env)
    \/ \E t \in TwoTypes \cup {NoName} : CallGetSwitchHistory(t)

SpecTwoTypes == Init /\ [][NextTwoTypes]_vars

\* Sequences of register and load_adapter calls, with every outcome of the
\* import, the class lookup and the construction.
NextLoad ==
    \/ /\ calls < MaxCallsLoad
       /\ \E n \in NameArgs, c \in ClassArgs, v \in BOOLEAN :
             CallRegister("ocr", n, c, v)
    \/ /\ calls < MaxCallsLoad
       /\ \E n \in NameArgs, a \in BOOLEAN, f \in BOOLEAN :
             \E env \in LoadEnvs("ocr", n, f) :
                CallLoadAdapter("ocr", n, a, f, env)

SpecLoad == Init /\ [][NextLoad]_vars

\* Two callers whose calls to the manager exclude each other, so that each
\* call is one step: one registers and switches, the other takes the active
\* instance and uses it.
NextCallers ==
    \/ /\ calls < MaxCallsCallers
       /\ \E n \in NameArgs, c \in ClassArgs :
             CallRegister("ocr", n, c, TRUE)
    \/ /\ calls < MaxCallsCallers
       /\ \E n \in NameArgs, cr \in BOOLEAN, kr \in BOOLEAN :
             CallSwitch("ocr", n, cr, kr)
    \/ CallGetActive("ocr")
    \/ CallUseActive("ocr")

SpecCallers == Init /\ [][NextCallers]_vars

\* Two threads that call switch on one manager with no lock round the
\* calls: the statements of the two calls interleave.
NextThreads ==
    \/ /\ calls < MaxCallsThreads
       /\ \E n \in NameArgs, c \in {"MockOCRAdapter", "ClosableAdapter"} :
             ThreadRegister("ocr", n, c)
    \/ /\ calls < MaxCallsThreads
       /\ \E th \in Threads, n \in NameArgs : SwitchBegin(th, "ocr", n)
    \/ \E th \in Threads : SwitchCleanup(th)
    \/ \E th \in Threads : SwitchLookup(th)
    \/ \E th \in Threads, kr \in BOOLEAN : SwitchConstruct(th, kr)
    \/ \E th \in Threads : SwitchStore(th)
    \/ \E th \in Threads : SwitchActivate(th)

SpecThreads == Init /\ [][NextThreads]_vars

\* The inputs of the scanner: class names, __plugin__ values, docstrings.
ScanClassNames ==
    {ClsTesseractAdapter, ClsMockOCRAdapter, ClsMyCoolAdapter,
     ClsTesseractOCR}

PluginRecords ==
    {EmptyDict,
     [name |-> NmFoo, version |-> "2.0"],
     [version |-> "2.0"],
     [name |-> NmFoo, description |-> "explicit",
      dependencies |-> <<"pytesseract">>, enabled |-> FALSE, priority |-> 5]}

ScanDocs == {<<>>, <<"First line.", "Second line.">>}

ScanClassDefs ==
    {ClassDef(n, "none", EmptyDict, d) : n \in ScanClassNames, d \in ScanDocs}
    \cup {ClassDef(n, "literal", EmptyDict, d) :
             n \in ScanClassNames, d \in ScanDocs}
    \cup {ClassDef(n, "mapping", p, d) :
             n \in ScanClassNames, p \in PluginRecords, d \in ScanDocs}

\* Files with one class, files with a helper class before the adapter
\* class, a file that does not parse, and files the scanner skips.
ScanFiles ==
    {SourceFile(FnMock, TRUE, <<c>>) : c \in ScanClassDefs}
    \cup {SourceFile(FnTesseract, TRUE,
                     <<ClassDef(ClsTesseractOCR, "none", EmptyDict, <<>>), c>>)
             : c \in ScanClassDefs}
    \cup {SourceFile(FnMock, FALSE, <<>>),
          SourceFile(FnBase, TRUE,
                     <<ClassDef(ClsOCRAdapter, "none", EmptyDict, <<>>)>>),
          SourceFile(FnInit, TRUE,
                     <<ClassDef(ClsMockOCRAdapter, "none", EmptyDict,
                                <<>>)>>)}

ScanFSs ==
    {RepoFS}
    \cup {[x \in {t} |-> <<f>>] : t \in AdapterTypes, f \in ScanFiles}

\* adapter_types: None, one type, an unknown directory before a known one.
ScanTypeArgs ==
    {<<FALSE, <<>>>>, <<TRUE, <<"ocr">>>>, <<TRUE, <<"invalid_type", "ocr">>>>}

\* The operations that read no field of the manager.
NextValues ==
    \/ \E fs \in ScanFSs, ta \in ScanTypeArgs :
          CallDiscoverPlugins(fs, ta[1], ta[2])
    \/ \E confidence \in FloatArgs : CallOCRResult(confidence)
    \/ \E confidence \in FloatArgs : CallTranslationResult(confidence)
    \/ \E score \in FloatArgs : CallSearchResult(score)

SpecValues == Init /\ [][NextValues]_vars

\* =================================================================== claims
SwitchSucceeded == last.op = "switch" /\ last.exc = NoName

\* C1: in a sequence of register and switch calls a cache entry, once made,
\* keeps its instance; a successful switch(t, n) constructs a fresh instance
\* only when (t, n) has no cache entry and makes the cached instance of
\* (t, n) the active one.  Hence every successful switch(t, n) activates
\* the instance the first one constructed.
C1_SingletonReuse ==
    [][/\ \A t \in AdapterTypes : \A n \in DOMAIN instances[t] :
             /\ n \in DOMAIN instances'[t]
             /\ instances'[t][n] = instances[t][n]
       /\ SwitchSucceeded' =>
             LET t == last'.type
                 n == last'.name
             IN /\ n \in DOMAIN instances'[t]
                /\ active'[t] = instances'[t][n]
                /\ n \notin DOMAIN instances[t] =>
                      /\ Len(heap') = Len(heap) + 1
                      /\ instances'[t][n] = Len(heap')]_vars

\* A switch a -> b -> a has just completed and the instance cached for a is
\* active again.
C1_Witness ==
    /\ SwitchSucceeded
    /\ Len(switch_history) >= 2
    /\ LET k == Len(switch_history)
       IN /\ switch_history[k].to = last.name
          /\ switch_history[k].from # last.name
          /\ switch_history[k - 1].to = switch_history[k].from
          /\ switch_history[k - 1].from = last.name
          /\ switch_history[k].type = last.type
          /\ switch_history[k - 1].type = last.type
    /\ active[last.type] = instances[last.type][last.name]

\* C2: after a successful switch(t, n) the active instance of t is of the
\* class registered for (t, n).
C2_ActiveIsOfRegisteredClass ==
    SwitchSucceeded =>
        heap[active[last.type]].cls = registry[last.type][last.name]

\* C3: a switch to a name that is not registered for a valid type fails
\* with PluginLoadError listing exactly the registered names of that type,
\* invokes no cleanup, records no event and changes nothing.
C3_UnregisteredSwitchFailsFirst ==
    [][(/\ last'.op = "switch"
        /\ last'.type \in AdapterTypes
        /\ last'.name \notin DOMAIN registry[last'.type]) =>
          /\ last'.exc = "PluginLoadError"
          /\ last'.names = DOMAIN registry[last'.type]
          /\ UNCHANGED <<registry, instances, active, switch_history, heap>>
      ]_vars

\* A switch to an unregistered name has failed while an instance with a
\* close() hook was active and other names were registered.
C3_Witness ==
    /\ last.op = "switch"
    /\ last.exc = "PluginLoadError"
    /\ last.type \in AdapterTypes
    /\ last.name \notin DOMAIN registry[last.type]
    /\ last.names # {}
    /\ active[last.type] # NoInstance
    /\ HasClose(Mgr, active[last.type])

\* C4: when the constructor of the incoming class raises, switch fails with
\* PluginLoadError, no cache entry is made for (t, n) and the active
\* instance of every type is the one before the call.
C4_CtorFailureLeavesActive ==
    [][(last'.op = "switch" /\ last'.ctorRaised) =>
          /\ last'.exc = "PluginLoadError"
          /\ last'.name \notin DOMAIN instances'[last'.type]
          /\ instances' = instances
          /\ \A t \in AdapterTypes :
                get_active(Mgr', t) = get_active(Mgr, t)]_vars

\* A switch has failed in the constructor while another instance was active.
C4_Witness ==
    /\ last.op = "switch"
    /\ last.ctorRaised
    /\ last.exc = "PluginLoadError"
    /\ active[last.type] # NoInstance

\* C5: when close() of the outgoing instance raises, the call ends as it
\* does when close() returns: same exception or none, same registry, cache,
\* active slot, history and objects; and unless the constructor fails the
\* incoming instance is active and the event is recorded.
C5_CleanupFailureSwallowed ==
    [][(last'.op = "switch" /\ last'.closeRaised) =>
          LET t == last'.type
              n == last'.name
              quiet == switch(Mgr, t, n, FALSE, last'.ctorRaised)
          IN /\ last'.exc = quiet.exc
             /\ Mgr' = quiet.m
             /\ ~last'.ctorRaised =>
                   /\ last'.exc = NoName
                   /\ active'[t] = instances'[t][n]
                   /\ switch_history' =
                        Append(switch_history,
                               [type |-> t,
                                from |-> list_active(Mgr)[t],
                                to |-> n,
                                timestamp |-> Len(switch_history) + 1])]_vars

\* A switch has completed although close() of the outgoing instance raised.
C5_Witness ==
    /\ SwitchSucceeded
    /\ last.closeRaised
    /\ active[last.type] = instances[last.type][last.name]
    /\ Len(switch_history) >= 1

\* C6: the active slot of a type is empty or holds the instance of exactly
\* one cache entry of that type, whose name list_active reports; list_active
\* reports none for a type exactly when get_active returns none.
C6_ActiveIsCached ==
    \A t \in AdapterTypes :
        /\ active[t] # NoInstance =>
              /\ Cardinality({n \in DOMAIN instances[t] :
                                 instances[t][n] = active[t]}) = 1
              /\ list_active(Mgr)[t] \in DOMAIN instances[t]
              /\ instances[t][list_active(Mgr)[t]] = active[t]
        /\ (list_active(Mgr)[t] = NoName) <=> (get_active(Mgr, t) = NoInstance)

\* list_active is called while a type has two cache entries and one of them
\* is active.
C6_Witness ==
    /\ last.op = "list_active"
    /\ \E t \in AdapterTypes :
          /\ active[t] # NoInstance
          /\ Cardinality(DOMAIN instances[t]) = 2
          /\ list_active(Mgr)[t] \in NameArgs

\* C7 as claimed: every successful switch appends exactly one event.
C7_EverySwitchRecordsOneEvent ==
    [][SwitchSucceeded' =>
          Len(switch_history') = Len(switch_history) + 1]_vars

\* C7 as amended: a successful switch(t, n) made while t has an active
\* instance appends exactly one event {t, name of that instance, n, time};
\* a successful switch out of the empty state appends none.
C7_SwitchFromActiveRecordsOneEvent ==
    [][SwitchSucceeded' =>
          LET t == last'.type
              n == last'.name
          IN IF active[t] # NoInstance
             THEN switch_history' =
                    Append(switch_history,
                           [type |-> t,
                            from |-> list_active(Mgr)[t],
                            to |-> n,
                            timestamp |-> Len(switch_history) + 1])
             ELSE switch_history' = switch_history]_vars

\* A successful switch away from an active instance has recorded its event.
C7_Witness ==
    /\ SwitchSucceeded
    /\ Len(switch_history) >= 1
    /\ switch_history[Len(switch_history)].type = last.type
    /\ switch_history[Len(switch_history)].to = last.name
    /\ switch_history[Len(switch_history)].from \in NameArgs

IsPrefix(s, h) ==
    /\ Len(s) <= Len(h)
    /\ \A i \in 1..Len(s) : s[i] = h[i]

\* The positions of the events of type t in the history.
EventsOfType(t) ==
    {i \in 1..Len(switch_history) : switch_history[i].type = t}

\* C8: the history before a step is a prefix of the history after it, only
\* switch makes it longer, get_switch_history(t) holds the events of type t
\* in the order of the history, and get_switch_history() holds them all.
C8_HistoryAppendOnly ==
    [][/\ IsPrefix(switch_history, switch_history')
       /\ switch_history' # switch_history => last'.op = "switch"
       /\ get_switch_history(Mgr, NoName) = switch_history
       /\ \A t \in AdapterTypes :
             LET got == get_switch_history(Mgr, t)
                 idx == EventsOfType(t)
             IN /\ Len(got) = Cardinality(idx)
                /\ \A k \in 1..Len(got) :
                      got[k] = switch_history[
                          CHOOSE i \in idx :
                              Cardinality({j \in idx : j <= i}) = k]]_vars

\* get_switch_history("ocr") is called on a history that holds an event of
\* another type before an event of type ocr.
C8_Witness ==
    /\ last.op = "get_switch_history"
    /\ last.type = "ocr"
    /\ Len(switch_history) >= 2
    /\ switch_history[1].type = "search"
    /\ switch_history[2].type = "ocr"
    /\ Len(get_switch_history(Mgr, "ocr")) < Len(switch_history)

\* C9: a cache entry, once made, is never replaced by another instance.
C9_CacheEntryNeverReplaced ==
    [][\A t \in AdapterTypes : \A n \in DOMAIN instances[t] :
          /\ n \in DOMAIN instances'[t]
          /\ instances'[t][n] = instances[t][n]]_vars

\* C10 as claimed: the active slot of a type changes only in a switch call
\* for that type.
C10_OnlySwitchChangesActive ==
    [][\A t \in AdapterTypes :
          active'[t] # active[t] =>
             (last'.op = "switch" /\ last'.type = t)]_vars

\* C10 as amended: the active slot of a type changes only in a switch call
\* or in a successful load_adapter call with auto_register for that type.
C10_OnlySwitchOrLoadChangesActive ==
    [][\A t \in AdapterTypes :
          get_active(Mgr', t) # get_active(Mgr, t) =>
             \/ last'.op = "switch" /\ last'.type = t
             \/ /\ last'.op = "load_adapter"
                /\ last'.type = t
                /\ last'.auto
                /\ last'.exc = NoName]_vars

\* load_adapter with auto_register has replaced the active instance of a
\* type that had one.
C10_Witness ==
    /\ last.op = "load_adapter"
    /\ last.auto
    /\ last.exc = NoName
    /\ last.ret # NoInstance
    /\ active[last.type] = last.ret
    /\ Len(heap) >= 2

\* The required operations of type t that class c does not expose.
Lacking(c, t) ==
    {meth \in {protocol_methods(t)[i] : i \in 1..Len(protocol_methods(t))} :
        meth \notin ClassAttrs(c)}

C12_InvalidKindFailsWithManagerError ==
    [][(/\ last'.op \in {"register", "switch", "get_adapter_config",
                         "load_adapter"}
        /\ last'.type \notin AdapterTypes) =>
          /\ last'.exc = "PluginManagerError"
          /\ UNCHANGED <<registry, instances, active, switch_history, heap>>
      ]_vars

\* C13: a load_adapter call makes one or two load attempts; one when the
\* name is "mock" or fallback_to_mock is off; two when fallback_to_mock is
\* on, the name is not "mock" and the first attempt fails by import, class
\* lookup or construction failure.  The second attempt is the call for
\* "mock" with fallback off: its instance is returned when it succeeds and
\* PluginLoadError is raised when it fails.
C13_AtMostOneFallbackHop ==
    \A n \in NameArgs, a \in BOOLEAN, f \in BOOLEAN :
      \A env \in LoadEnvs("ocr", n, f) :
        LET r == load_adapter(Mgr, "ocr", n, a, f, env)
            firstFails == env[n] \in LoadFailures
            mockAlone == load_adapter(Mgr, "ocr", "mock", a, FALSE, env)
            mockLoads == /\ env["mock"] \notin LoadFailures
                         /\ a => validate_protocol(env["mock"], "ocr")
        IN /\ r.attempts \in {1, 2}
           /\ (n = "mock" \/ ~f) => r.attempts = 1
           /\ ~firstFails /\ (a => validate_protocol(env[n], "ocr")) =>
                 r.attempts = 1 /\ r.exc = NoName
           /\ (firstFails /\ f /\ n # "mock") =>
                 /\ r.attempts = 2
                 /\ mockAlone.attempts = 1
                 /\ r = [mockAlone EXCEPT !.attempts = 2]
                 /\ ~mockLoads =>
                       r.exc = "PluginLoadError" /\ r.ret = NoInstance
                 /\ mockLoads =>
                       /\ r.exc = NoName
                       /\ r.ret = Len(heap) + 1
                       /\ r.m.heap[r.ret].cls = env["mock"]

\* load_adapter for "tesseract" has returned the instance of the fallback
\* attempt.
C13_Witness ==
    /\ last.op = "load_adapter"
    /\ last.name = "tesseract"
    /\ last.attempts = 2
    /\ last.exc = NoName
    /\ last.ret # NoInstance

LoadInstalled == last.op = "load_adapter" /\ last.auto /\ last.exc = NoName

\* What a successful load_adapter with auto_register has done when the
\* class is installed under name n: the returned instance is new, its class
\* is registered under n, it is the cache entry of n and the active
\* instance, no object that existed before was touched (no close() ran) and
\* the history is as before.
InstalledUnder(n) ==
    LET t == last'.type
        inst == last'.ret
    IN /\ inst > Len(heap)
       /\ inst <= Len(heap')
       /\ n \in DOMAIN registry'[t]
       /\ registry'[t][n] = heap'[inst].cls
       /\ n \in DOMAIN instances'[t]
       /\ instances'[t][n] = inst
       /\ active'[t] = inst
       /\ \A i \in 1..Len(heap) : heap'[i] = heap[i]
       /\ switch_history' = switch_history

\* C14 as claimed: a successful load_adapter(t, n, auto_register) installs
\* the class and the new instance under the requested name n.
C14_LoadInstallsUnderRequestedName ==
    [][LoadInstalled' => InstalledUnder(last'.name)]_vars

\* C14 as amended: a successful load_adapter(t, n, auto_register) installs
\* the class and the new instance under n when the first attempt succeeded
\* and under "mock" when it fell back, in both cases without close() on the
\* previously active instance and without a history event.
C14_LoadInstallsUnderResolvedName ==
    [][LoadInstalled' =>
          IF last'.attempts = 1
          THEN InstalledUnder(last'.name)
          ELSE /\ InstalledUnder("mock")
               /\ last'.name # "mock"
               /\ registry'[last'.type] =
                     Put(registry[last'.type], "mock",
                         heap'[last'.ret].cls)]_vars

\* load_adapter with auto_register has installed an instance under its own
\* name while the type has another cached instance with a close() hook,
\* and that hook has never been run.
C14_Witness ==
    /\ LoadInstalled
    /\ last.attempts = 1
    /\ active[last.type] = last.ret
    /\ instances[last.type][last.name] = last.ret
    /\ \E i \in 1..Len(heap) :
          /\ i # last.ret
          /\ "close" \in ClassAttrs(heap[i].cls)
          /\ heap[i].closes = 0
          /\ \E n \in DOMAIN instances[last.type] :
                instances[last.type][n] = i

\* C15: a discover_plugins call leaves registry, cache, active slots,
\* history and adapter objects as they were, and a plugin it reports whose
\* name is not registered for its type is still refused by switch with
\* PluginLoadError, the manager unchanged.
C15_DiscoveryChangesNothing ==
    [][last'.op = "discover_plugins" =>
          /\ UNCHANGED <<registry, instances, active, switch_history, heap>>
          /\ \A i \in 1..Len(last'.found) :
                LET p == last'.found[i]
                    n == AsName(p.name)
                IN n \notin DOMAIN registry'[p.type] =>
                      LET r == switch(Mgr', p.type, n, FALSE, FALSE)
                      IN /\ r.exc = "PluginLoadError"
                         /\ r.m = Mgr']_vars

\* discover_plugins has reported ocr/mock to a manager that has another
\* adapter registered and active for ocr, and "mock" is not registered.
C15_Witness ==
    /\ last.op = "discover_plugins"
    /\ \E i \in 1..Len(last.found) :
          /\ last.found[i].type = "ocr"
          /\ last.found[i].name = NmMock
    /\ "mock" \notin DOMAIN registry["ocr"]
    /\ "tesseract" \in DOMAIN registry["ocr"]
    /\ active["ocr"] # NoInstance

\* The plugin names the class names of the scanned units stand for.
ExpectedName(class_name) ==
    CASE class_name = ClsTesseractAdapter -> NmTesseract
      [] class_name = ClsMockOCRAdapter -> NmMock
      [] class_name = ClsMyCoolAdapter -> NmMyCool

MetadataFields ==
    {"name", "version", "description", "dependencies", "enabled", "priority"}

C20_ConfidenceInUnitInterval ==
    /\ \A x \in FloatArgs :
          LET inside == /\ x.cls = "finite"
                        /\ 0 <= x.scaled
                        /\ x.scaled <= Scale
              expected == IF inside THEN NoName ELSE "ValueError"
          IN /\ OCRResult(x).exc = expected
             /\ TranslationResult(x).exc = expected
             /\ SearchResult(x).exc = expected
    /\ (/\ last.op \in {"OCRResult", "TranslationResult", "SearchResult"}
        /\ last.exc = NoName) =>
          /\ last.value.cls = "finite"
          /\ last.value.scaled \in 0..Scale

\* A TranslationResult with the first confidence above 1.0 was refused.
C20_Witness ==
    /\ last.op = "TranslationResult"
    /\ last.exc = "ValueError"
    /\ last.value = Finite(Scale + 1)

\* C16: with the calls of the callers excluding each other, a caller that
\* uses the instance get_active gave it never uses one whose close() the
\* other caller's switch has invoked.
C16_NoUseAfterCleanup ==
    last.op = "use" => heap[last.ret].closes = 0

\* C17: get_adapter_config with a valid type raises nothing, returns the
\* table at plugins.<type>.<name> or an empty one when the tree has no
\* such entry, and leaves the manager as it was.
C17_ConfigLookupNeverRaises ==
    [][(last'.op = "get_adapter_config" /\ last'.type \in AdapterTypes) =>
          /\ last'.exc = NoName
          /\ UNCHANGED <<registry, instances, active, switch_history, heap>>
      ]_vars

\* C18: get_registered(t) and list_available(t) return the names the
\* registry holds for t, none for an unknown type; they and get_active,
\* list_active and get_switch_history leave registry, cache, active slots,
\* history and adapter objects as they were.
C18_QueriesReadOnly ==
    [][/\ last'.op \in {"get_registered", "list_available", "get_active",
                        "list_active", "get_switch_history"} =>
             UNCHANGED <<registry, instances, active, switch_history, heap>>
       /\ last'.op \in {"get_registered", "list_available"} =>
             /\ last'.names = IF last'.type \in AdapterTypes
                              THEN DOMAIN registry[last'.type]
                              ELSE {}
             /\ last'.names = list_available(Mgr, last'.type)
             /\ last'.names = DOMAIN get_registered(Mgr, last'.type)]_vars

\* list_available has returned both names while only one of them has a
\* cached instance, which is active.
C18_Witness ==
    /\ last.op = "list_available"
    /\ last.names = {"mock", "tesseract"}
    /\ Cardinality(DOMAIN instances[last.type]) = 1
    /\ active[last.type] # NoInstance

\* C21: a switch(t, n) to a registered name made while t has an active
\* instance invokes close() exactly once, on the instance that was active
\* when the call began, when that instance has a close(); it does so before
\* the cache lookup and the construction, so the invocation has happened
\* also when the construction then fails; no other instance is closed, and
\* a switch out of the empty state closes none.
C21_CleanupOnceOnOutgoingBeforeIncoming ==
    \A n \in DOMAIN registry["ocr"], cr \in BOOLEAN, kr \in BOOLEAN :
        LET t == "ocr"
            prev == active[t]
            r == switch(Mgr, t, n, cr, kr)
            closed(i) == r.m.heap[i].closes - heap[i].closes
        IN /\ Len(r.m.heap) >= Len(heap)
           /\ \A i \in 1..Len(heap) :
                 closed(i) = IF i = prev /\ HasClose(Mgr, i) THEN 1 ELSE 0
           /\ \A i \in (Len(heap) + 1)..Len(r.m.heap) :
                 r.m.heap[i].closes = 0
           /\ (kr /\ ~is_cached(Mgr, t, n)) =>
                 /\ r.exc = "PluginLoadError"
                 /\ r.m.active[t] = prev

\* A switch away from an active instance with a close() has failed in the
\* constructor of the incoming class: the outgoing instance has been closed
\* once and is still the active one.
C21_Witness ==
    /\ last.op = "switch"
    /\ last.ctorRaised
    /\ last.exc = "PluginLoadError"
    /\ active[last.type] # NoInstance
    /\ HasClose(Mgr, active[last.type])
    /\ heap[active[last.type]].closes = 1

\* C22: when the class load_adapter(t, n, auto_register=True) resolves for n
\* lacks an operation required for t, the call raises PluginValidationError
\* whatever fallback_to_mock is, and registers, caches and activates
\* nothing.
C22_LoadSurfacesValidationError ==
    \A n \in NameArgs, f \in BOOLEAN :
        \A env \in LoadEnvs("ocr", n, f) :
            (env[n] \in ClassArgs /\ ~validate_protocol(env[n], "ocr")) =>
                LET r == load_adapter(Mgr, "ocr", n, TRUE, f, env)
                IN /\ r.exc = "PluginValidationError"
                   /\ r.m.registry = registry
                   /\ r.m.instances = instances
                   /\ r.m.active = active

\* C23: when load_adapter(t, n, auto_register=True, fallback_to_mock=True)
\* falls back and succeeds, the instance it returns is registered, cached
\* and active under "mock": list_active reports "mock" for t, "mock" is in
\* list_available(t), the returned instance is cached under no other name,
\* and n, when it was not available before the call, is not available
\* after it.
C23_FallbackInstallsUnderMock ==
    \A n \in NameArgs :
        \A env \in LoadEnvs("ocr", n, TRUE) :
            LET t == "ocr"
                r == load_adapter(Mgr, t, n, TRUE, TRUE, env)
            IN (r.exc = NoName /\ r.attempts = 2) =>
                  /\ n # "mock"
                  /\ r.ret # NoInstance
                  /\ r.m.heap[r.ret].cls = env["mock"]
                  /\ list_active(r.m)[t] = "mock"
                  /\ "mock" \in list_available(r.m, t)
                  /\ r.m.registry[t]["mock"] = env["mock"]
                  /\ r.m.instances[t]["mock"] = r.ret
                  /\ get_active(r.m, t) = r.ret
                  /\ \A x \in DOMAIN r.m.instances[t] :
                        r.m.instances[t][x] = r.ret => x = "mock"
                  /\ n \notin list_available(Mgr, t) =>
                        n \notin list_available(r.m, t)

\* load_adapter for "tesseract" has fallen back: the mock is active and
\* "tesseract" is not registered.
C23_Witness ==
    /\ last.op = "load_adapter"
    /\ last.name = "tesseract"
    /\ last.auto
    /\ last.attempts = 2
    /\ last.exc = NoName
    /\ list_active(Mgr)[last.type] = "mock"
    /\ active[last.type] = last.ret
    /\ "tesseract" \notin list_available(Mgr, last.type)

\* Two threads whose last switch calls both constructed an instance for the
\* same type and name.
BothConstructed(a, b) ==
    /\ a # b
    /\ threads[a].constructed
    /\ threads[b].constructed
    /\ threads[a].type = threads[b].type
    /\ threads[a].name = threads[b].name

\* C24: switch takes no lock.  A switch call whose statements run with no
\* statement of another call between them ends as the call as a whole
\* does.  When two switch(t, n) calls interleave and both construct, the
\* two instances are distinct objects, and once both calls have returned
\* the cache entry of (t, n) holds one of them and the other is cached
\* under no name.
C24_UnlockedSwitchesBothConstruct ==
    [][/\ \A th \in Threads :
             (/\ threads[th].pc = "activate"
              /\ threads'[th].pc = "idle"
              /\ threads[th].alone) =>
                Mgr' = switch(threads[th].start, threads[th].type,
                              threads[th].name, FALSE, FALSE).m
       /\ \A a \in Threads, b \in Threads :
             BothConstructed(a, b)' =>
                LET t == threads'[a].type
                    n == threads'[a].name
                    ia == threads'[a].instance
                    ib == threads'[b].instance
                IN /\ ia # ib
                   /\ (threads'[a].pc = "idle" /\ threads'[b].pc = "idle") =>
                         /\ n \in DOMAIN instances'[t]
                         /\ instances'[t][n] \in {ia, ib}
                         /\ Cardinality({i \in {ia, ib} :
                                \E x \in DOMAIN instances'[t] :
                                    instances'[t][x] = i}) = 1]_vars

\* Two interleaved switch calls for one name have both constructed and
\* returned, and the instance get_active returns is the one that is not in
\* the cache.
C24_Witness ==
    \E a \in Threads, b \in Threads :
        /\ BothConstructed(a, b)
        /\ threads[a].pc = "idle"
        /\ threads[b].pc = "idle"
        /\ get_active(Mgr, threads[a].type) = threads[a].instance
        /\ instances[threads[a].type][threads[a].name] = threads[b].instance
        /\ threads[a].instance # threads[b].instance

\* C25: an instance on which close() has been invoked is never the value of
\* an active slot, and get_active never returns such an instance.
C25_ClosedInstanceNeverActive ==
    /\ \A t \in AdapterTypes :
          get_active(Mgr, t) # NoInstance =>
              heap[get_active(Mgr, t)].closes = 0
    /\ (last.op = "get_active" /\ last.ret # NoInstance) =>
          heap[last.ret].closes = 0

\* C26: a switch call that raises leaves the switch history, the registry
\* and the instance cache as they were before the call.
C26_FailedSwitchLeavesHistory ==
    [][(last'.op = "switch" /\ last'.exc # NoName) =>
          /\ switch_history' = switch_history
          /\ registry' = registry
          /\ instances' = instances]_vars

\* C27: every event of the history has a from name that is not None and
\* a to name that is registered for the event's type; and the events a
\* switch(t, n) call records carry type t, to name n, and as from name the
\* name list_active reports for t before the call, which is not None.
C27_EventsNameActiveAndRegistered ==
    /\ \A i \in 1..Len(switch_history) :
          LET e == switch_history[i]
          IN /\ e.from # NoName
             /\ e.type \in AdapterTypes
             /\ e.to \in list_available(Mgr, e.type)
    /\ \A t \in TypeArgs, n \in NameArgs, kr \in BOOLEAN :
          LET r == switch(Mgr, t, n, FALSE, kr)
          IN \A i \in (Len(switch_history) + 1)..Len(r.m.switch_history) :
                LET e == r.m.switch_history[i]
                IN /\ e.type = t
                   /\ e.to = n
                   /\ n \in list_available(Mgr, t)
                   /\ e.from = list_active(Mgr)[t]
                   /\ e.from # NoName

\* A successful switch to another name has recorded the first event of the
\* history; its from name is the cache entry of the outgoing instance.
C27_Witness ==
    /\ SwitchSucceeded
    /\ Len(switch_history) = 1
    /\ switch_history[1].to = last.name
    /\ switch_history[1].from # last.name
    /\ switch_history[1].from \in DOMAIN instances[last.type]
    /\ instances[last.type][switch_history[1].from] # active[last.type]

\* C28: a load_adapter call that raises, with or without auto_register and
\* with or without a fallback hop, leaves the registry, the instance cache,
\* the active slots and the switch history as they were before the call.
C28_FailedLoadChangesNothing ==
    \A t \in TypeArgs, n \in NameArgs, a \in BOOLEAN, f \in BOOLEAN :
        \A env \in LoadEnvs(t, n, f) :
            LET r == load_adapter(Mgr, t, n, a, f, env)
            IN r.exc # NoName =>
                  /\ r.m.registry = registry
                  /\ r.m.instances = instances
                  /\ r.m.active = active
                  /\ r.m.switch_history = switch_history

\* load_adapter with auto_register has raised after a fallback hop that
\* failed too, on a manager that had a registered name.
C28_Witness ==
    /\ last.op = "load_adapter"
    /\ last.auto
    /\ last.exc = "PluginLoadError"
    /\ last.attempts = 2
    /\ \E t \in AdapterTypes : DOMAIN registry[t] # {}

\* C29: after every step, every name that has a cache entry for a type is
\* registered for that type, the name of the active instance of a type is
\* registered for it, and every name registered before the step is
\* registered after it.
C29_CachedNamesAreRegistered ==
    [][\A t \in AdapterTypes :
          /\ DOMAIN instances'[t] \subseteq DOMAIN registry'[t]
          /\ active'[t] # NoInstance =>
                list_active(Mgr')[t] \in DOMAIN registry'[t]
          /\ DOMAIN registry[t] \subseteq DOMAIN registry'[t]]_vars

\* A type has two cache entries, both registered; the one load_adapter has
\* just made is the active one.
C29_Witness ==
    /\ last.op = "load_adapter"
    /\ last.exc = NoName
    /\ last.auto
    /\ Cardinality(DOMAIN instances[last.type]) = 2
    /\ active[last.type] = last.ret
    /\ DOMAIN instances[last.type] = DOMAIN registry[last.type]

\* C30: a register, switch or load_adapter call for one type leaves the
\* registry entries, the cache entries and the active slot of every other
\* type as they were, invokes close() on no instance cached or active for
\* another type, and appends only events that carry its own type.
C30_TypesAreIsolated ==
    [][last'.op \in {"register", "switch", "load_adapter"} =>
          /\ \A u \in AdapterTypes \ {last'.type} :
                /\ registry'[u] = registry[u]
                /\ instances'[u] = instances[u]
                /\ active'[u] = active[u]
                /\ \A n \in DOMAIN instances[u] :
                      heap'[instances[u][n]] = heap[instances[u][n]]
                /\ active[u] # NoInstance => heap'[active[u]] = heap[active[u]]
          /\ IsPrefix(switch_history, switch_history')
          /\ \A i \in (Len(switch_history) + 1)..Len(switch_history') :
                switch_history'[i].type = last'.type]_vars

\* A switch for "search" has closed the outgoing search instance and
\* recorded its event while "ocr" has an active instance that has never
\* been closed.
C30_Witness ==
    /\ SwitchSucceeded
    /\ last.type = "search"
    /\ Len(switch_history) >= 1
    /\ switch_history[Len(switch_history)].type = "search"
    /\ \E n \in DOMAIN instances["search"] :
          heap[instances["search"][n]].closes = 1
    /\ active["ocr"] # NoInstance
    /\ heap[active["ocr"]].closes = 0
    /\ active["ocr"] # active["search"]
====
